---- MODULE Spec2Model ----
(***************************************************************************)
(* A model of plekiko/speedup: the command-line renderer (speedup.py) and  *)
(* its graphical front-end (gui.py).                                       *)
(*                                                                         *)
(* Python floats are modelled as exact rationals num/den.  The tempo chain *)
(* only divides by 2.0 and 0.5, which IEEE-754 does exactly; the duration  *)
(* arithmetic of build_ffmpeg_cmd is modelled without rounding error.      *)
(***************************************************************************)
EXTENDS Integers, Sequences, FiniteSets, TLC

\* ------------------------------------------------------------------------
\* Bounds of the model
\* ------------------------------------------------------------------------

\* Speeds are the rationals n / SpeedDen.
SpeedDen == 256

\* The largest speed of the tempo-chain inputs (the claim's range is (0, MaxSpeed]).
MaxSpeed == 4

\* Times of the requests are TimeStep * i seconds, i in 0..MaxTicks.
TimeStep == 10

MaxTicks == 4

\* Probed durations are TimeStep * i seconds, i in (MaxDurTicks - 1)..MaxDurTicks.
MaxDurTicks == 3

\* The speeds of a run are 0, 1/2 and 1..MaxCliSpeed.
MaxCliSpeed == 3

\* The most .mp4 files a folder holds.
MaxFiles == 2

\* The most runs started from the window in one behaviour.
MaxRuns == 3

\* The lines an OS pipe holds before a write to it blocks.
PipeCap == 2

\* The most lines the transcoder writes in one behaviour.
MaxWrites == 4

\* The most pieces (a word, a separator or a directive) a file's stem is made of.
MaxStemPieces == 2

\* The most .mp4 files of the folder whose names the naming model follows.
MaxFolderFiles == 2

\* ------------------------------------------------------------------------
\* Rationals
\* ------------------------------------------------------------------------

Rat(n, d) == [num |-> n, den |-> d]

RatLT(a, b) == a.num * b.den < b.num * a.den

Abs(x) == IF x < 0 THEN -x ELSE x

\* 2^k
RECURSIVE Pow2(_)
Pow2(k) == IF k = 0 THEN 1 ELSE 2 * Pow2(k - 1)

\* ------------------------------------------------------------------------
\* Decimal strings, as sequences of one-character strings
\* ------------------------------------------------------------------------

DigitStr == <<"0", "1", "2", "3", "4", "5", "6", "7", "8", "9">>

DigitChar(d) == DigitStr[d + 1]

IsDigit(c) == \E d \in 0..9 : DigitStr[d + 1] = c

DigitVal(c) == CHOOSE d \in 0..9 : DigitStr[d + 1] = c

\* The value of a digit sequence.
RECURSIVE DigitsVal(_)
DigitsVal(s) ==
    IF Len(s) = 0 THEN 0
    ELSE 10 * DigitsVal(SubSeq(s, 1, Len(s) - 1)) + DigitVal(s[Len(s)])

\* The decimal digits of n >= 0, most significant first ("0" for 0).
RECURSIVE IntDigits(_)
IntDigits(n) ==
    IF n < 10 THEN <<DigitChar(n)>>
    ELSE Append(IntDigits(n \div 10), DigitChar(n % 10))

\* The last k decimal digits of n, zero padded.
RECURSIVE PadDigits(_, _)
PadDigits(n, k) ==
    IF k = 0 THEN <<>>
    ELSE Append(PadDigits(n \div 10, k - 1), DigitChar(n % 10))

\* The number of decimals of Python's ":.6f".
FmtDecimals == 6

Micro == 10 ^ FmtDecimals

\* a / b rounded to the nearest integer, ties to even (a >= 0, b > 0): the
\* rounding of Python's float formatting, which is exact on the binary value.
RoundHalfEven(a, b) ==
    LET q == a \div b
        r == a % b
    IN  IF 2 * r < b THEN q
        ELSE IF 2 * r > b THEN q + 1
        ELSE IF q % 2 = 0 THEN q ELSE q + 1

\* f"{x:.6f}" for a rational x >= 0.
Fmt6f(x) ==
    LET m == RoundHalfEven(x.num * Micro, x.den)
    IN  IntDigits(m \div Micro) \o <<".">> \o PadDigits(m % Micro, FmtDecimals)

\* str.rstrip(c)
RECURSIVE RStrip(_, _)
RStrip(s, c) ==
    IF Len(s) > 0 /\ s[Len(s)] = c THEN RStrip(SubSeq(s, 1, Len(s) - 1), c)
    ELSE s

\* ------------------------------------------------------------------------
\* atempo_chain (speedup.py 47-62), one loop iteration per step
\* ------------------------------------------------------------------------

Two == Rat(2, 1)

Half == Rat(1, 2)

\* remaining /= 2.0
HalveRat(x) ==
    IF x.num % 2 = 0 THEN Rat(x.num \div 2, x.den) ELSE Rat(x.num, x.den * 2)

\* remaining /= 0.5
DoubleRat(x) ==
    IF x.den % 2 = 0 THEN Rat(x.num, x.den \div 2) ELSE Rat(x.num * 2, x.den)

\* The two constant filters the loops append.
FilterTwo == <<"atempo=", "2", ".", "0">>

FilterHalf == <<"atempo=", "0", ".", "5">>

\* f"atempo={remaining:.6f}".rstrip("0").rstrip(".")
FormatLast(remaining) ==
    RStrip(RStrip(<<"atempo=">> \o Fmt6f(remaining), "0"), ".")

\* A variant of HalveGuard that stops halving at 4.0.
HalveGuardMutant(remaining) == RatLT(Rat(4, 1), remaining)

\* while remaining > 2.0
HalveGuard(remaining) == RatLT(Two, remaining)

\* while remaining < 0.5
DoubleGuard(remaining) == RatLT(remaining, Half)

\* atempo_chain as build_ffmpeg_cmd calls it: the same loops, run to the end.
RECURSIVE HalveLoop(_, _)
HalveLoop(remaining, filters) ==
    IF HalveGuard(remaining)
    THEN HalveLoop(HalveRat(remaining), Append(filters, FilterTwo))
    ELSE [remaining |-> remaining, filters |-> filters]

RECURSIVE DoubleLoop(_, _)
DoubleLoop(remaining, filters) ==
    IF DoubleGuard(remaining)
    THEN DoubleLoop(DoubleRat(remaining), Append(filters, FilterHalf))
    ELSE [remaining |-> remaining, filters |-> filters]

\* The returned chain (speed > 0).
AtempoChain(speed) ==
    LET h == HalveLoop(speed, <<>>)
        d == DoubleLoop(h.remaining, h.filters)
    IN  Append(d.filters, FormatLast(d.remaining))

\* ------------------------------------------------------------------------
\* Optional values (Python's None)
\* ------------------------------------------------------------------------

None == [some |-> FALSE, v |-> 0]

Some(x) == [some |-> TRUE, v |-> x]

\* An absent time string.
NoStr == [some |-> FALSE, v |-> <<>>]

\* ------------------------------------------------------------------------
\* parse_hms (speedup.py 15-38)
\* ------------------------------------------------------------------------

\* A time string is the sequence of its ":"-separated parts, each a sequence of
\* characters.  float(p) succeeds on a non-empty digit string (whole seconds;
\* fractions are not modelled) and raises ValueError on anything else here.
IsFloat(p) == Len(p) > 0 /\ \A i \in 1..Len(p) : IsDigit(p[i])

\* [ok |-> FALSE] is die("Invalid time format"), else the seconds.
ParseHms(value) ==
    IF \E i \in 1..Len(value) : ~IsFloat(value[i])
    THEN [ok |-> FALSE, v |-> 0]
    ELSE IF Len(value) = 1 THEN [ok |-> TRUE, v |-> DigitsVal(value[1])]
    ELSE IF Len(value) = 2
    THEN [ok |-> TRUE, v |-> DigitsVal(value[1]) * 60 + DigitsVal(value[2])]
    ELSE IF Len(value) = 3
    THEN [ok |-> TRUE,
          v |-> DigitsVal(value[1]) * 3600 + DigitsVal(value[2]) * 60
                + DigitsVal(value[3])]
    ELSE [ok |-> FALSE, v |-> 0]

\* ------------------------------------------------------------------------
\* build_ffmpeg_cmd (speedup.py 198-291), after the probe returned in_dur
\* ------------------------------------------------------------------------

\* A variant of Partial that tests truthiness: partial = bool(start or end).
PartialMutant(start, end) == (start.some /\ start.v # 0) \/ (end.some /\ end.v # 0)

\* partial = start is not None or end is not None
Partial(start, end) == start.some \/ end.some

\* s = start or 0.0
StartOrZero(start) == IF start.some /\ start.v # 0 THEN start.v ELSE 0

\* e = end if end is not None else in_dur
EndOrDur(end, in_dur) == IF end.some THEN end.v ELSE in_dur

\* A variant of Rejected that lets an empty segment through: if e < s.
RejectedMutant(s, e) == e < s

\* if e <= s: die(...)
Rejected(s, e) == e <= s

\* expected = s + (seg / speed) + (in_dur - e), with seg = e - s
ExpectedPartial(s, e, speed, in_dur) ==
    Rat(s * speed.num + (e - s) * speed.den + (in_dur - e) * speed.num, speed.num)

\* expected = in_dur / speed
ExpectedWhole(speed, in_dur) == Rat(in_dur * speed.den, speed.num)

\* sped_out_dur = (e - s) / speed
SpedOutDur(s, e, speed) == Rat((e - s) * speed.den, speed.num)

\* The video half of the filter graph (lines 234-241): the three trimmed
\* segments in concat order.  to = None is an open-ended trim; setpts_div is the
\* divisor of the segment's timestamps; fps lists the fps filters in order.
PartialVideo(s, e, speed) ==
    << [from |-> 0, to |-> Some(s), setpts_div |-> Rat(1, 1), fps |-> <<"fps_normal">>],
       [from |-> s, to |-> Some(e), setpts_div |-> speed,
        fps |-> <<"fps_fast", "fps_normal">>],
       [from |-> e, to |-> None, setpts_div |-> Rat(1, 1), fps |-> <<"fps_normal">>] >>

\* The audio half (lines 248-255), in concat order: head, silence, tail.
PartialAudio(s, e, speed) ==
    << [kind |-> "atrim", from |-> 0, to |-> Some(s), duration |-> Rat(0, 1)],
       [kind |-> "anullsrc", from |-> 0, to |-> None, duration |-> SpedOutDur(s, e, speed)],
       [kind |-> "atrim", from |-> e, to |-> None, duration |-> Rat(0, 1)] >>

\* cmd += ["-an"] exactly on no_audio (lines 267-270 and 285-288)
DropAudio(no_audio, partial) == no_audio

\* The command, by the options that matter to the transcoder:
\*   video_opt   the option carrying the video filter
\*   video       its segments (one segment, the whole stream, in whole-file mode)
\*   audio_opt   "-filter_complex", "-filter:a" or "" (no audio filter)
\*   audio       the audio segments (partial) or <<>>
\*   atempo      the tempo chain (whole-file mode with audio) or <<>>
\*   maps        the -map options
\*   an          "-an" is passed
\* rejected is die("--end must be greater than --start").
BuildFfmpegCmd(speed, no_audio, start, end, in_dur) ==
    IF Partial(start, end)
    THEN LET s == StartOrZero(start)
             e == EndOrDur(end, in_dur)
             keep == ~DropAudio(no_audio, TRUE)
         IN  IF Rejected(s, e)
             THEN [rejected |-> TRUE]
             ELSE [rejected |-> FALSE,
                   expected |-> ExpectedPartial(s, e, speed, in_dur),
                   cmd |-> [video_opt |-> "-filter_complex",
                            video |-> PartialVideo(s, e, speed),
                            audio_opt |-> IF keep THEN "-filter_complex" ELSE "",
                            audio |-> IF keep THEN PartialAudio(s, e, speed) ELSE <<>>,
                            atempo |-> <<>>,
                            maps |-> IF keep THEN <<"[v]", "[a]">> ELSE <<"[v]">>,
                            an |-> ~keep]]
    ELSE LET keep == ~DropAudio(no_audio, FALSE)
         IN  [rejected |-> FALSE,
              expected |-> ExpectedWhole(speed, in_dur),
              cmd |-> [video_opt |-> "-filter:v",
                       video |-> << [from |-> 0, to |-> None, setpts_div |-> speed,
                                     fps |-> <<"fps_fast">>] >>,
                       audio_opt |-> IF keep THEN "-filter:a" ELSE "",
                       audio |-> <<>>,
                       atempo |-> IF keep THEN AtempoChain(speed) ELSE <<>>,
                       maps |-> <<>>,
                       an |-> ~keep]]

VARIABLES
    \* atempo_chain, stepped
    at_pc,          \* "off", "entry", "halve", "double", "format", "done", "died"
    at_speed,       \* its argument
    at_remaining,   \* the local `remaining`
    at_filters,     \* the local `filters`, then the returned list (joined by ",")
    \* one run of speedup.py
    pc,             \* where main() is; "exited" after sys.exit or its return
    env,            \* what the run finds: executables on the path, the input path
    argv,           \* the command line: speed, start/end strings, no_audio, output
    args,           \* argparse's namespace: start and end after parse_hms
    filesLeft,      \* folder mode: the .mp4 files of mp4s not yet visited
    cur,            \* the file in process_one: its start and end overrides
    probed,         \* the prober's outcome for cur: "none", "running", "ok", "unreadable"
    in_dur,         \* the probed duration of cur
    built,          \* what build_ffmpeg_cmd returned: cmd and expected
    rc,             \* the transcoder's return code of cur (-1: none yet)
    exitCode,       \* the exit code of the run (-1: still running)
    stderrOut,      \* the "Error: ..." messages written to standard error
    launched,       \* the external processes launched so far, in order
    running,        \* the external processes launched and not yet exited
    dirs,           \* the directories created (mkdir)
    processed,      \* files rendered
    skipped,        \* files without "--slow"
    summary,        \* "Folder complete" was printed
    \* the window of gui.py, its worker threads and the processes below them
    run_btn,        \* state of the Run button: "normal" or "disabled"
    stop_btn,       \* state of the Stop button
    status,         \* text of the status label
    proc,           \* self.proc: 0 for None, else the run whose child it is
    runs,           \* runs started so far
    wpc,            \* per run: where its worker thread is
    cli,            \* per run: where its child speedup.py process is
    ext,            \* per run: the external process its child launched and that is alive
    doneq,          \* _done callbacks posted with after(0, ...) and not yet run
    stop_pressed,   \* per run: Stop was pressed while the window showed it running
    term_sent,      \* per run: _stop called terminate() on its child
    \* run_ffmpeg_with_progress and the transcoder at the other end of its pipes
    rl_pc,          \* the relay: "off", "reading", "waiting", "returned", "died"
    ff_op,          \* the transcoder: "idle", "write_out", "write_err", "exited"
    ff_line,        \* the line it is about to write to stdout
    ff_rc,          \* its return code (-1: still running)
    outPipe,        \* lines in the stdout pipe
    errPipe,        \* lines in the stderr pipe
    writes,         \* lines written so far
    \* the folder loop of main(), by the names of its files
    fd_pc,          \* "off", "start", "loop", "done" (summary printed), "died"
    mp4s,           \* sorted(in_dir.rglob("*.mp4")): files as [parent, stem]
    fd_next,        \* the index in mp4s of the file the loop visits next
    written         \* the renders so far: [input, out_path], in order

tempoVars == <<at_pc, at_speed, at_remaining, at_filters>>

cliVars == <<pc, env, argv, args, filesLeft, cur, probed, in_dur, built, rc, exitCode,
             stderrOut, launched, running, dirs, processed, skipped, summary>>

stopVars == <<stop_pressed, term_sent>>

guiVars == <<run_btn, stop_btn, status, proc, runs, wpc, cli, ext, doneq, stopVars>>

relayVars == <<rl_pc, ff_op, ff_line, ff_rc, outPipe, errPipe, writes>>

folderVars == <<fd_pc, mp4s, fd_next, written>>

vars == <<tempoVars, cliVars, guiVars, relayVars, folderVars>>

\* The variables of a component the specification at hand does not run.
TempoOff ==
    /\ at_pc = "off"
    /\ at_speed = Rat(0, 1)
    /\ at_remaining = Rat(0, 1)
    /\ at_filters = <<>>

Runs == 1..MaxRuns

GuiOff ==
    /\ run_btn = "off"
    /\ stop_btn = "off"
    /\ status = "off"
    /\ proc = 0
    /\ runs = 0
    /\ wpc = [i \in Runs |-> "none"]
    /\ cli = [i \in Runs |-> "none"]
    /\ ext = [i \in Runs |-> "none"]
    /\ doneq = 0
    /\ stop_pressed = [i \in Runs |-> FALSE]
    /\ term_sent = [i \in Runs |-> FALSE]

RelayOff ==
    /\ rl_pc = "off"
    /\ ff_op = "off"
    /\ ff_line = ""
    /\ ff_rc = -1
    /\ outPipe = <<>>
    /\ errPipe = 0
    /\ writes = 0

FolderOff ==
    /\ fd_pc = "off"
    /\ mp4s = <<>>
    /\ fd_next = 0
    /\ written = <<>>

NoRequest == [start |-> None, end |-> None]

NothingBuilt == [rejected |-> TRUE]

CliOff ==
    /\ pc = "off"
    /\ env = [ffmpeg |-> FALSE, ffprobe |-> FALSE, input |-> "missing"]
    /\ argv = [speed |-> Rat(0, 1), start |-> NoStr, end |-> NoStr,
               no_audio |-> FALSE, output |-> FALSE]
    /\ args = NoRequest
    /\ filesLeft = 0
    /\ cur = NoRequest
    /\ probed = "none"
    /\ in_dur = 0
    /\ built = NothingBuilt
    /\ rc = -1
    /\ exitCode = -1
    /\ stderrOut = <<>>
    /\ launched = <<>>
    /\ running = {}
    /\ dirs = {}
    /\ processed = 0
    /\ skipped = 0
    /\ summary = FALSE

TempoSpeeds == {Rat(n, SpeedDen) : n \in 0..(MaxSpeed * SpeedDen)}

InitTempo ==
    /\ FolderOff
    /\ CliOff
    /\ GuiOff
    /\ RelayOff
    /\ at_pc = "entry"
    /\ at_speed \in TempoSpeeds
    /\ at_remaining = Rat(0, 1)
    /\ at_filters = <<>>

\* lines 48-52
AtempoEntry ==
    /\ at_pc = "entry"
    /\ IF at_speed.num <= 0
       THEN /\ at_pc' = "died"
            /\ UNCHANGED <<at_remaining, at_filters>>
       ELSE /\ at_pc' = "halve"
            /\ at_remaining' = at_speed
            /\ at_filters' = <<>>
    /\ UNCHANGED <<at_speed, cliVars, guiVars, relayVars, folderVars>>

\* lines 54-56
AtempoHalve ==
    /\ at_pc = "halve"
    /\ IF HalveGuard(at_remaining)
       THEN /\ at_filters' = Append(at_filters, FilterTwo)
            /\ at_remaining' = HalveRat(at_remaining)
            /\ at_pc' = "halve"
       ELSE /\ at_pc' = "double"
            /\ UNCHANGED <<at_remaining, at_filters>>
    /\ UNCHANGED <<at_speed, cliVars, guiVars, relayVars, folderVars>>

\* lines 57-59
AtempoDouble ==
    /\ at_pc = "double"
    /\ IF DoubleGuard(at_remaining)
       THEN /\ at_filters' = Append(at_filters, FilterHalf)
            /\ at_remaining' = DoubleRat(at_remaining)
            /\ at_pc' = "double"
       ELSE /\ at_pc' = "format"
            /\ UNCHANGED <<at_remaining, at_filters>>
    /\ UNCHANGED <<at_speed, cliVars, guiVars, relayVars, folderVars>>

\* lines 61-62
AtempoFormat ==
    /\ at_pc = "format"
    /\ at_filters' = Append(at_filters, FormatLast(at_remaining))
    /\ at_pc' = "done"
    /\ UNCHANGED <<at_speed, at_remaining, cliVars, guiVars, relayVars, folderVars>>

NextTempo == AtempoEntry \/ AtempoHalve \/ AtempoDouble \/ AtempoFormat

SpecTempo == InitTempo /\ [][NextTempo]_vars /\ WF_vars(NextTempo)

\* ------------------------------------------------------------------------
\* One run of speedup.py: main (321-405), process_one (294-318),
\* ffprobe_duration_seconds (65-80), run_ffmpeg_with_progress (83-141)
\* ------------------------------------------------------------------------

Times == {TimeStep * i : i \in 0..MaxTicks}

Durations == {TimeStep * i : i \in (MaxDurTicks - 1)..MaxDurTicks}

CliSpeeds == {Rat(0, 2), Rat(1, 2)} \cup {Rat(2 * k, 2) : k \in 1..MaxCliSpeed}

\* "SS", "MM:SS" and "HH:MM:SS" strings.
GoodTimeStrs ==
    {<<IntDigits(t)>> : t \in Times}
    \cup {<<IntDigits(0), IntDigits(TimeStep)>>,
          <<IntDigits(0), IntDigits(0), IntDigits(2 * TimeStep)>>}

\* "x", "1:" and "0:0:0:10".
BadTimeStrs ==
    {<< <<"x">> >>, <<IntDigits(1), <<>> >>,
     <<IntDigits(0), IntDigits(0), IntDigits(0), IntDigits(TimeStep)>>}

OptStrs(S) == {NoStr} \cup {Some(x) : x \in S}

\* What the directive patterns _START_RE and _END_RE (152-153) can capture from
\* a file name, "_" replaced by ":" (165, 170): one to three digit groups.
DirectiveStrs == {<<IntDigits(t)>> : t \in Times} \cup {<<IntDigits(0), IntDigits(TimeStep)>>}

\* The transcoder's return codes.
ReturnCodes == {0, 1, 2}

InitCli ==
    /\ FolderOff
    /\ TempoOff
    /\ GuiOff
    /\ RelayOff
    /\ pc = "parse_args"
    /\ env \in [ffmpeg : BOOLEAN, ffprobe : BOOLEAN, input : {"missing", "file", "dir"}]
    /\ argv \in [speed : CliSpeeds, start : OptStrs(GoodTimeStrs \cup BadTimeStrs),
                 end : OptStrs(GoodTimeStrs \cup BadTimeStrs),
                 no_audio : BOOLEAN, output : BOOLEAN]
    \* --start, --end and the output path are single-file options: a folder run
    \* is given none, or a bad time string
    /\ env.input # "file" =>
          /\ argv.start \in OptStrs(BadTimeStrs)
          /\ argv.end \in OptStrs(BadTimeStrs)
          /\ ~argv.output
    /\ args = NoRequest
    /\ filesLeft = 0
    /\ cur = NoRequest
    /\ probed = "none"
    /\ in_dur = 0
    /\ built = NothingBuilt
    /\ rc = -1
    /\ exitCode = -1
    /\ stderrOut = <<>>
    /\ launched = <<>>
    /\ running = {}
    /\ dirs = {}
    /\ processed = 0
    /\ skipped = 0
    /\ summary = FALSE

\* A variant of die that exits with a code of its own on a transcoder failure.
DieMutantRc(msg) ==
    /\ pc' = "exited"
    /\ exitCode' = (IF msg = "ffmpeg failed" THEN 2 ELSE 1)
    /\ stderrOut' = Append(stderrOut, msg)

\* A variant of die that a folder run survives: the loop goes on to the next file.
DieMutantFolder(msg) ==
    /\ pc' = (IF filesLeft > 0 /\ env.input = "dir" THEN "loop" ELSE "exited")
    /\ exitCode' = (IF filesLeft > 0 /\ env.input = "dir" THEN exitCode ELSE 1)
    /\ stderrOut' = Append(stderrOut, msg)

\* die (11-13): the message on standard error, then sys.exit(code) with the
\* default code; nothing in the program catches SystemExit.
Die(msg) ==
    /\ pc' = "exited"
    /\ exitCode' = 1
    /\ stderrOut' = Append(stderrOut, msg)

OptTime(str) == IF str.some THEN Some(ParseHms(str.v).v) ELSE None

\* p.parse_args() (334) with type=parse_hms on --start and --end (326-327)
ParseArgs ==
    /\ pc = "parse_args"
    /\ IF \/ argv.start.some /\ ~ParseHms(argv.start.v).ok
          \/ argv.end.some /\ ~ParseHms(argv.end.v).ok
       THEN /\ Die("Invalid time format")
            /\ UNCHANGED args
       ELSE /\ args' = [start |-> OptTime(argv.start), end |-> OptTime(argv.end)]
            /\ pc' = "main"
            /\ UNCHANGED <<exitCode, stderrOut>>
    /\ UNCHANGED <<env, argv, filesLeft, cur, probed, in_dur, built, rc, launched, running,
                   dirs, processed, skipped, summary, tempoVars, guiVars, relayVars, folderVars>>

\* 336-345
CheckArgs ==
    /\ pc = "main"
    /\ IF argv.speed.num <= 0 THEN Die("Speed must be > 0")
       ELSE IF ~env.ffmpeg THEN Die("ffmpeg not found")
       ELSE IF env.input = "missing" THEN Die("Input path not found")
       ELSE /\ pc' = (IF env.input = "dir" THEN "folder" ELSE "single")
            /\ UNCHANGED <<exitCode, stderrOut>>
    /\ UNCHANGED <<env, argv, args, filesLeft, cur, probed, in_dur, built, rc, launched,
                   running, dirs, processed, skipped, summary, tempoVars, guiVars, relayVars, folderVars>>

\* 346-356: the output directory is created, then the folder is listed
FolderSetup ==
    /\ pc = "folder"
    /\ dirs' = dirs \cup {"out_dir"}
    /\ \E n \in 0..MaxFiles :
          IF n = 0
          THEN /\ Die("No .mp4 files found in folder")
               /\ UNCHANGED filesLeft
          ELSE /\ filesLeft' = n
               /\ pc' = "loop"
               /\ UNCHANGED <<exitCode, stderrOut>>
    /\ UNCHANGED <<env, argv, args, cur, probed, in_dur, built, rc, launched, running,
                   processed, skipped, summary, tempoVars, guiVars, relayVars, folderVars>>

\* 358-363: the next file has no "--slow" in its stem
LoopSkip ==
    /\ pc = "loop"
    /\ filesLeft > 0
    /\ filesLeft' = filesLeft - 1
    /\ skipped' = skipped + 1
    /\ UNCHANGED <<pc, env, argv, args, cur, probed, in_dur, built, rc, exitCode, stderrOut,
                   launched, running, dirs, processed, summary, tempoVars, guiVars, relayVars, folderVars>>

\* 358-382: the next file has "--slow"; its directives (155-195) are the
\* overrides, its target directory is created, and process_one is entered
LoopProcess ==
    /\ pc = "loop"
    /\ filesLeft > 0
    /\ filesLeft' = filesLeft - 1
    /\ \E st \in OptStrs(DirectiveStrs), en \in OptStrs(DirectiveStrs) :
          cur' = [start |-> OptTime(st), end |-> OptTime(en)]
    /\ dirs' = dirs \cup {"target_dir"}
    /\ pc' = "probe"
    /\ UNCHANGED <<env, argv, args, probed, in_dur, built, rc, exitCode, stderrOut, launched,
                   running, processed, skipped, summary, tempoVars, guiVars, relayVars, folderVars>>

\* 385-386, and the return of main
FolderComplete ==
    /\ pc = "loop"
    /\ filesLeft = 0
    /\ summary' = TRUE
    /\ exitCode' = 0
    /\ pc' = "exited"
    /\ UNCHANGED <<env, argv, args, filesLeft, cur, probed, in_dur, built, rc, stderrOut,
                   launched, running, dirs, processed, skipped, tempoVars, guiVars, relayVars, folderVars>>

\* 388-405 up to the call of process_one
SingleSetup ==
    /\ pc = "single"
    /\ IF ~argv.output
       THEN /\ Die("Single-file mode requires an output path argument")
            /\ UNCHANGED <<dirs, cur>>
       ELSE /\ dirs' = dirs \cup {"output_parent"}
            /\ cur' = args
            /\ pc' = "probe"
            /\ UNCHANGED <<exitCode, stderrOut>>
    /\ UNCHANGED <<env, argv, args, filesLeft, probed, in_dur, built, rc, launched, running,
                   processed, skipped, summary, tempoVars, guiVars, relayVars, folderVars>>

\* process_one 301-303, build_ffmpeg_cmd 210, ffprobe_duration_seconds 66-77:
\* the prober is looked up, then launched
ProbeLaunch ==
    /\ pc = "probe"
    /\ IF ~env.ffprobe
       THEN /\ Die("ffprobe not found (part of FFmpeg)")
            /\ UNCHANGED <<launched, running, probed>>
       ELSE /\ launched' = Append(launched, "ffprobe")
            /\ running' = running \cup {"ffprobe"}
            /\ probed' = "running"
            /\ pc' = "probing"
            /\ UNCHANGED <<exitCode, stderrOut>>
    /\ UNCHANGED <<env, argv, args, filesLeft, cur, in_dur, built, rc, dirs,
                   processed, skipped, summary, tempoVars, guiVars, relayVars, folderVars>>

\* 77-80: check_output returns when the prober has exited; a non-zero exit or
\* an output float() cannot read is die("Failed to read video duration")
ProbeExit ==
    /\ pc = "probing"
    /\ running' = running \ {"ffprobe"}
    /\ \/ \E d \in Durations :
             /\ in_dur' = d
             /\ probed' = "ok"
             /\ pc' = "build"
             /\ UNCHANGED <<exitCode, stderrOut>>
       \/ /\ Die("Failed to read video duration")
          /\ probed' = "unreadable"
          /\ UNCHANGED in_dur
    /\ UNCHANGED <<env, argv, args, filesLeft, cur, built, rc, launched, dirs,
                   processed, skipped, summary, tempoVars, guiVars, relayVars, folderVars>>

\* build_ffmpeg_cmd 211-291
Build ==
    /\ pc = "build"
    /\ built' = BuildFfmpegCmd(argv.speed, argv.no_audio, cur.start, cur.end, in_dur)
    /\ IF built'.rejected
       THEN Die("--end must be greater than --start")
       ELSE /\ pc' = "run_ffmpeg"
            /\ UNCHANGED <<exitCode, stderrOut>>
    /\ UNCHANGED <<env, argv, args, filesLeft, cur, probed, in_dur, rc, launched, running,
                   dirs, processed, skipped, summary, tempoVars, guiVars, relayVars, folderVars>>

\* process_one 316, run_ffmpeg_with_progress 84-92
FfmpegLaunch ==
    /\ pc = "run_ffmpeg"
    /\ launched' = Append(launched, "ffmpeg")
    /\ running' = running \cup {"ffmpeg"}
    /\ rc' = -1
    /\ pc' = "relay"
    /\ UNCHANGED <<env, argv, args, filesLeft, cur, probed, in_dur, built, exitCode,
                   stderrOut, dirs, processed, skipped, summary, tempoVars, guiVars, relayVars, folderVars>>

\* 97-141, process_one 317-318, main 383 or the return of main: the relay loop
\* ends, proc.wait() returns the transcoder's code
FfmpegExit ==
    /\ pc = "relay"
    /\ running' = running \ {"ffmpeg"}
    /\ \E r \in ReturnCodes :
          /\ rc' = r
          /\ IF r # 0
             THEN /\ Die("ffmpeg failed")
                  /\ UNCHANGED processed
             ELSE IF env.input = "dir"
             THEN /\ processed' = processed + 1
                  /\ pc' = "loop"
                  /\ UNCHANGED <<exitCode, stderrOut>>
             ELSE /\ pc' = "exited"
                  /\ exitCode' = 0
                  /\ UNCHANGED <<processed, stderrOut>>
    /\ UNCHANGED <<env, argv, args, filesLeft, cur, probed, in_dur, built, launched, dirs,
                   skipped, summary, tempoVars, guiVars, relayVars, folderVars>>

Next ==
    \/ ParseArgs \/ CheckArgs \/ FolderSetup \/ LoopSkip \/ LoopProcess
    \/ FolderComplete \/ SingleSetup \/ ProbeLaunch \/ ProbeExit \/ Build
    \/ FfmpegLaunch \/ FfmpegExit

Spec == InitCli /\ [][Next]_vars

\* ------------------------------------------------------------------------
\* The window (gui.py): App._run, its worker thread, App._done, App._stop,
\* and below each worker its child speedup.py with the process that child runs
\* ------------------------------------------------------------------------

InitGui ==
    /\ FolderOff
    /\ TempoOff
    /\ CliOff
    /\ RelayOff
    \* __init__ 38 and _build_ui 107-113
    /\ proc = 0
    /\ run_btn = "normal"
    /\ stop_btn = "disabled"
    /\ status = "Idle"
    /\ runs = 0
    /\ wpc = [i \in Runs |-> "none"]
    /\ cli = [i \in Runs |-> "none"]
    /\ ext = [i \in Runs |-> "none"]
    /\ doneq = 0
    /\ stop_pressed = [i \in Runs |-> FALSE]
    /\ term_sent = [i \in Runs |-> FALSE]

\* A press of Run reaches _run only while the button is enabled.
\* _run 200-236 with valid settings: the worker thread is started.
ClickRun ==
    /\ run_btn = "normal"
    /\ runs < MaxRuns
    /\ IF proc # 0
       THEN UNCHANGED <<status, run_btn, stop_btn, runs, wpc>>
       ELSE /\ status' = "Running"
            /\ run_btn' = "disabled"
            /\ stop_btn' = "normal"
            /\ runs' = runs + 1
            /\ wpc' = [wpc EXCEPT ![runs + 1] = "start"]
    /\ UNCHANGED <<proc, cli, ext, doneq, tempoVars, cliVars, relayVars, stopVars, folderVars>>

\* _run 204-208: _build_cmd raises (no input, or a single file that is no
\* .mp4); the error box is shown and nothing starts.
ClickRunInvalid ==
    /\ run_btn = "normal"
    /\ UNCHANGED vars

\* _stop 243-250, reached by a press of Stop while the button is enabled: the
\* press belongs to the run the window shows (the last one started).  With
\* self.proc None it returns at once; else terminate() signals the child
\* speedup.py, and only it: the process that child launched is not signalled,
\* and speedup.py has no handler that would stop it (speedup.py 86-92, 134).
ClickStop ==
    /\ stop_btn = "normal"
    /\ stop_pressed' = [stop_pressed EXCEPT ![runs] = TRUE]
    /\ IF proc = 0
       THEN UNCHANGED <<cli, term_sent>>
       ELSE /\ cli' = [cli EXCEPT ![proc] = "exited"]
            /\ term_sent' = [term_sent EXCEPT ![proc] = TRUE]
    /\ UNCHANGED <<run_btn, stop_btn, status, proc, runs, wpc, ext, doneq,
                   tempoVars, cliVars, relayVars, folderVars>>

\* worker 217-225: Popen starts the child and self.proc is set
WorkerPopen(i) ==
    /\ wpc[i] = "start"
    /\ proc' = i
    /\ cli' = [cli EXCEPT ![i] = "started"]
    /\ wpc' = [wpc EXCEPT ![i] = "reading"]
    /\ UNCHANGED <<run_btn, stop_btn, status, runs, ext, doneq, tempoVars, cliVars,
                   relayVars, stopVars, folderVars>>

\* worker 217, 230-231: Popen raises
WorkerPopenFails(i) ==
    /\ wpc[i] = "start"
    /\ wpc' = [wpc EXCEPT ![i] = "finally"]
    /\ UNCHANGED <<run_btn, stop_btn, status, proc, runs, cli, ext, doneq, tempoVars,
                   cliVars, relayVars, stopVars, folderVars>>

\* worker 226-229: the loop over the child's output ends when the pipe is
\* closed, that is when the child has exited and so has the prober, which
\* inherits the child's stderr (speedup.py 77); wait() then returns
WorkerEof(i) ==
    /\ wpc[i] = "reading"
    /\ cli[i] = "exited"
    /\ ext[i] # "ffprobe"
    /\ wpc' = [wpc EXCEPT ![i] = "finally"]
    /\ UNCHANGED <<run_btn, stop_btn, status, proc, runs, cli, ext, doneq, tempoVars,
                   cliVars, relayVars, stopVars, folderVars>>

\* worker 232-233
WorkerFinally(i) ==
    /\ wpc[i] = "finally"
    /\ proc' = 0
    /\ wpc' = [wpc EXCEPT ![i] = "post_done"]
    /\ UNCHANGED <<run_btn, stop_btn, status, runs, cli, ext, doneq, tempoVars,
                   cliVars, relayVars, stopVars, folderVars>>

\* worker 234, and the end of the thread
WorkerPostDone(i) ==
    /\ wpc[i] = "post_done"
    /\ doneq' = doneq + 1
    /\ wpc' = [wpc EXCEPT ![i] = "finished"]
    /\ UNCHANGED <<run_btn, stop_btn, status, proc, runs, cli, ext, tempoVars,
                   cliVars, relayVars, stopVars, folderVars>>

\* _done 238-241, run by the event loop
Done ==
    /\ doneq > 0
    /\ doneq' = doneq - 1
    /\ status' = "Idle"
    /\ run_btn' = "normal"
    /\ stop_btn' = "disabled"
    /\ UNCHANGED <<proc, runs, wpc, cli, ext, tempoVars, cliVars, relayVars, stopVars, folderVars>>

\* The child speedup.py of run i, by the processes it launches.
\* speedup.py 65-77: the prober is launched for the next file
ChildProbeLaunch(i) ==
    /\ cli[i] = "started"
    /\ cli' = [cli EXCEPT ![i] = "probing"]
    /\ ext' = [ext EXCEPT ![i] = "ffprobe"]
    /\ UNCHANGED <<run_btn, stop_btn, status, proc, runs, wpc, doneq, tempoVars,
                   cliVars, relayVars, stopVars, folderVars>>

\* speedup.py 77-80: check_output returns when the prober has exited
ChildProbeExit(i) ==
    /\ cli[i] = "probing"
    /\ cli' = [cli EXCEPT ![i] = "probed"]
    /\ ext' = [ext EXCEPT ![i] = "none"]
    /\ UNCHANGED <<run_btn, stop_btn, status, proc, runs, wpc, doneq, tempoVars,
                   cliVars, relayVars, stopVars, folderVars>>

\* speedup.py 86-92: the transcoder is launched
ChildFfmpegLaunch(i) ==
    /\ cli[i] = "probed"
    /\ cli' = [cli EXCEPT ![i] = "relay"]
    /\ ext' = [ext EXCEPT ![i] = "ffmpeg"]
    /\ UNCHANGED <<run_btn, stop_btn, status, proc, runs, wpc, doneq, tempoVars,
                   cliVars, relayVars, stopVars, folderVars>>

\* speedup.py 134: proc.wait() returns when the transcoder has exited; the
\* child goes on to its next file, or to its end
ChildFfmpegExit(i) ==
    /\ cli[i] = "relay"
    /\ cli' = [cli EXCEPT ![i] = "started"]
    /\ ext' = [ext EXCEPT ![i] = "none"]
    /\ UNCHANGED <<run_btn, stop_btn, status, proc, runs, wpc, doneq, tempoVars,
                   cliVars, relayVars, stopVars, folderVars>>

\* speedup.py 11-13, 385-386, 405: the child exits (die, or the end of main)
\* while none of its processes runs
ChildExit(i) ==
    /\ cli[i] \in {"started", "probed"}
    /\ cli' = [cli EXCEPT ![i] = "exited"]
    /\ UNCHANGED <<run_btn, stop_btn, status, proc, runs, wpc, ext, doneq, tempoVars,
                   cliVars, relayVars, stopVars, folderVars>>

\* A process whose parent was terminated runs on until it exits by itself.
OrphanExit(i) ==
    /\ cli[i] = "exited"
    /\ ext[i] # "none"
    /\ ext' = [ext EXCEPT ![i] = "none"]
    /\ UNCHANGED <<run_btn, stop_btn, status, proc, runs, wpc, cli, doneq, tempoVars,
                   cliVars, relayVars, stopVars, folderVars>>

NextGui ==
    \/ ClickRun \/ ClickRunInvalid \/ ClickStop \/ Done
    \/ \E i \in Runs :
          \/ WorkerPopen(i) \/ WorkerPopenFails(i) \/ WorkerEof(i)
          \/ WorkerFinally(i) \/ WorkerPostDone(i)
          \/ ChildProbeLaunch(i) \/ ChildProbeExit(i) \/ ChildFfmpegLaunch(i)
          \/ ChildFfmpegExit(i) \/ ChildExit(i) \/ OrphanExit(i)

SpecGui == InitGui /\ [][NextGui]_vars

\* The scheduling of a run once it is started: the worker thread and the event
\* loop keep running (217-234, 238-241), every external process exits in the
\* end, and the child, which has finitely many files, reaches its end.
FairGui ==
    /\ WF_vars(Done)
    /\ \A i \in Runs :
          /\ WF_vars(WorkerPopen(i) \/ WorkerPopenFails(i))
          /\ WF_vars(WorkerEof(i))
          /\ WF_vars(WorkerFinally(i))
          /\ WF_vars(WorkerPostDone(i))
          /\ WF_vars(ChildProbeExit(i))
          /\ WF_vars(ChildFfmpegExit(i))
          /\ WF_vars(OrphanExit(i))
          /\ SF_vars(ChildExit(i))

SpecGuiFair == SpecGui /\ FairGui

\* ------------------------------------------------------------------------
\* run_ffmpeg_with_progress (speedup.py 83-141) and the transcoder it started
\* with stdout=PIPE and stderr=PIPE
\* ------------------------------------------------------------------------

\* The lines of the transcoder's -progress output that the loop tells apart.
ProgressLines == {"out_time_ms=1", "out_time_ms=N/A", "progress=continue", "progress=end"}

InitRelay ==
    /\ FolderOff
    /\ TempoOff
    /\ CliOff
    /\ GuiOff
    \* 86-95: Popen has returned
    /\ rl_pc = "reading"
    /\ ff_op = "idle"
    /\ ff_line = ""
    /\ ff_rc = -1
    /\ outPipe = <<>>
    /\ errPipe = 0
    /\ writes = 0

\* The transcoder turns to its next write: a progress line to stdout, or a log
\* line to stderr.
FfNextOut ==
    /\ ff_op = "idle"
    /\ writes < MaxWrites
    /\ \E l \in ProgressLines : ff_line' = l
    /\ ff_op' = "write_out"
    /\ UNCHANGED <<rl_pc, ff_rc, outPipe, errPipe, writes, tempoVars, cliVars, guiVars, folderVars>>

FfNextErr ==
    /\ ff_op = "idle"
    /\ writes < MaxWrites
    /\ ff_op' = "write_err"
    /\ UNCHANGED <<rl_pc, ff_line, ff_rc, outPipe, errPipe, writes, tempoVars, cliVars,
                   guiVars, folderVars>>

\* A write returns once the pipe has room for it.
FfWriteOut ==
    /\ ff_op = "write_out"
    /\ Len(outPipe) < PipeCap
    /\ outPipe' = Append(outPipe, ff_line)
    /\ writes' = writes + 1
    /\ ff_op' = "idle"
    /\ UNCHANGED <<rl_pc, ff_line, ff_rc, errPipe, tempoVars, cliVars, guiVars, folderVars>>

FfWriteErr ==
    /\ ff_op = "write_err"
    /\ errPipe < PipeCap
    /\ errPipe' = errPipe + 1
    /\ writes' = writes + 1
    /\ ff_op' = "idle"
    /\ UNCHANGED <<rl_pc, ff_line, ff_rc, outPipe, tempoVars, cliVars, guiVars, folderVars>>

\* The transcoder exits, its writes accepted; its ends of the pipes close.
FfExit ==
    /\ ff_op = "idle"
    /\ ff_op' = "exited"
    /\ \E r \in ReturnCodes : ff_rc' = r
    /\ UNCHANGED <<rl_pc, ff_line, outPipe, errPipe, writes, tempoVars, cliVars, guiVars, folderVars>>

\* 97-130: one line of stdout is read; "progress=end" leaves the loop
RelayRead ==
    /\ rl_pc = "reading"
    /\ outPipe # <<>>
    /\ outPipe' = Tail(outPipe)
    /\ rl_pc' = (IF Head(outPipe) = "progress=end" THEN "waiting" ELSE "reading")
    /\ UNCHANGED <<ff_op, ff_line, ff_rc, errPipe, writes, tempoVars, cliVars, guiVars, folderVars>>

\* 97: end of file on stdout leaves the loop
RelayEof ==
    /\ rl_pc = "reading"
    /\ outPipe = <<>>
    /\ ff_op = "exited"
    /\ rl_pc' = "waiting"
    /\ UNCHANGED <<ff_op, ff_line, ff_rc, outPipe, errPipe, writes, tempoVars, cliVars,
                   guiVars, folderVars>>

\* 134-141: proc.wait() returns when the transcoder has exited; stderr is read
\* only then, and only on a non-zero code
RelayWait ==
    /\ rl_pc = "waiting"
    /\ ff_op = "exited"
    /\ IF ff_rc # 0
       THEN /\ errPipe' = 0
            /\ rl_pc' = "died"
       ELSE /\ rl_pc' = "returned"
            /\ UNCHANGED errPipe
    /\ UNCHANGED <<ff_op, ff_line, ff_rc, outPipe, writes, tempoVars, cliVars, guiVars, folderVars>>

NextRelay ==
    \/ FfNextOut \/ FfNextErr \/ FfWriteOut \/ FfWriteErr \/ FfExit
    \/ RelayRead \/ RelayEof \/ RelayWait

SpecRelay == InitRelay /\ [][NextRelay]_vars

\* ------------------------------------------------------------------------
\* Strings of file names, as sequences of one-character strings
\* ------------------------------------------------------------------------

\* s[i:].startswith(pat)
StartsWithAt(s, i, pat) ==
    /\ i + Len(pat) - 1 <= Len(s)
    /\ SubSeq(s, i, i + Len(pat) - 1) = pat

\* pat in s
Contains(s, pat) == \E i \in 1..Len(s) : StartsWithAt(s, i, pat)

\* s.replace(pat, rep), and re.sub of a literal pattern: the occurrences of
\* pat, leftmost first and not overlapping.
RECURSIVE ReplaceFrom(_, _, _, _)
ReplaceFrom(s, i, pat, rep) ==
    IF i > Len(s) THEN <<>>
    ELSE IF StartsWithAt(s, i, pat)
    THEN rep \o ReplaceFrom(s, i + Len(pat), pat, rep)
    ELSE <<s[i]>> \o ReplaceFrom(s, i + 1, pat, rep)

StrReplace(s, pat, rep) == ReplaceFrom(s, 1, pat, rep)

\* s.split(c)
RECURSIVE Split(_, _)
Split(s, c) ==
    IF \A i \in 1..Len(s) : s[i] # c THEN <<s>>
    ELSE LET i == CHOOSE k \in 1..Len(s) : s[k] = c /\ \A j \in 1..(k - 1) : s[j] # c
         IN  <<SubSeq(s, 1, i - 1)>> \o Split(SubSeq(s, i + 1, Len(s)), c)

\* re.sub of a run of c (two or more; for "\s+" -> " ", one or more) by one c
RECURSIVE Collapse(_, _)
Collapse(s, c) ==
    IF Len(s) < 2 THEN s
    ELSE IF s[1] = c /\ s[2] = c THEN Collapse(Tail(s), c)
    ELSE <<s[1]>> \o Collapse(Tail(s), c)

\* s.strip(cs)
RECURSIVE Strip(_, _)
Strip(s, cs) ==
    IF Len(s) > 0 /\ s[1] \in cs THEN Strip(Tail(s), cs)
    ELSE IF Len(s) > 0 /\ s[Len(s)] \in cs THEN Strip(SubSeq(s, 1, Len(s) - 1), cs)
    ELSE s

\* The characters of the names, in the order of their code points.
CharOrder ==
    <<" ", "-", ".", "0", "1", "2", "3", "4", "5", "6", "7", "8", "9", ":", "=",
      "_", "a", "b", "d", "e", "l", "m", "n", "o", "p", "r", "s", "t", "u", "w">>

CharCode(c) == CHOOSE k \in 1..Len(CharOrder) : CharOrder[k] = c

\* a < b on str
RECURSIVE StrLess(_, _)
StrLess(a, b) ==
    IF Len(b) = 0 THEN FALSE
    ELSE IF Len(a) = 0 THEN TRUE
    ELSE IF a[1] = b[1] THEN StrLess(Tail(a), Tail(b))
    ELSE CharCode(a[1]) < CharCode(b[1])

\* ------------------------------------------------------------------------
\* parse_filename_directives (speedup.py 152-195)
\* ------------------------------------------------------------------------

SlowTag == <<"-", "-", "s", "l", "o", "w">>

\* The literal heads of _START_RE and _END_RE.
StartPrefix == <<"-", "-", "s", "t", "a", "r", "t", "=">>

EndPrefix == <<"-", "-", "e", "n", "d", "=">>

\* The length of [0-9]* at s[i:].
RECURSIVE DigitRun(_, _)
DigitRun(s, i) ==
    IF i <= Len(s) /\ IsDigit(s[i]) THEN 1 + DigitRun(s, i + 1) ELSE 0

\* (?:[seps][0-9]+)? at s[k:]: the index after it.
GroupEnd(s, k, seps) ==
    IF k <= Len(s) /\ s[k] \in seps /\ DigitRun(s, k + 1) > 0
    THEN k + 1 + DigitRun(s, k + 1)
    ELSE k

\* [0-9]+(?:[_:][0-9]+){0,2}(?:\.[0-9]+)? at s[j:]: the index after the match,
\* 0 when there is none.  Every part is greedy and nothing has to follow, so
\* the first try of the regex engine is its match.
TimeEnd(s, j) ==
    LET n  == DigitRun(s, j)
        k1 == GroupEnd(s, j + n, {"_", ":"})
        k2 == GroupEnd(s, k1, {"_", ":"})
    IN  IF n = 0 THEN 0 ELSE GroupEnd(s, k2, {"."})

\* A match of the directive's regex at s[i:]: the index after it, 0 when none.
DirectiveEnd(s, i, prefix) ==
    IF StartsWithAt(s, i, prefix) THEN TimeEnd(s, i + Len(prefix)) ELSE 0

\* regex.search(stem): group(1) of the leftmost match, or None
ReSearch(s, prefix) ==
    LET M == {i \in 1..Len(s) : DirectiveEnd(s, i, prefix) > 0}
    IN  IF M = {} THEN NoStr
        ELSE LET i == CHOOSE k \in M : \A j \in M : k <= j
             IN  [some |-> TRUE,
                  v |-> SubSeq(s, i + Len(prefix), DirectiveEnd(s, i, prefix) - 1)]

\* regex.sub("", clean)
RECURSIVE ReSubFrom(_, _, _)
ReSubFrom(s, i, prefix) ==
    IF i > Len(s) THEN <<>>
    ELSE IF DirectiveEnd(s, i, prefix) > 0
    THEN ReSubFrom(s, DirectiveEnd(s, i, prefix), prefix)
    ELSE <<s[i]>> \o ReSubFrom(s, i + 1, prefix)

ReSub(s, prefix) == ReSubFrom(s, 1, prefix)

\* m.group(1).replace("_", ":") handed to parse_hms: None when the directive is
\* absent; ok is FALSE when parse_hms dies.
DirectiveTime(stem, prefix) ==
    LET m == ReSearch(stem, prefix)
    IN  IF ~m.some THEN [ok |-> TRUE, t |-> None]
        ELSE LET r == ParseHms(Split(StrReplace(m.v, <<"_">>, <<":">>), ":"))
             IN  [ok |-> r.ok, t |-> Some(r.v)]

OutputName == <<"o", "u", "t", "p", "u", "t">>

\* clean_stem (174-188)
CleanStem(stem) ==
    LET c1 == StrReplace(stem, SlowTag, <<>>)
        c2 == ReSub(c1, StartPrefix)
        c3 == ReSub(c2, EndPrefix)
        c4 == Strip(Collapse(c3, " "), {" "})
        c5 == Collapse(c4, "_")
        c6 == Collapse(c5, "-")
        c7 == StrReplace(c6, <<"_", "-">>, <<"_">>)
        c8 == StrReplace(c7, <<"-", "_">>, <<"_">>)
        c9 == Strip(c8, {" ", "_", "-"})
    IN  IF c9 = <<>> THEN OutputName ELSE c9

ParseFilenameDirectives(stem) ==
    LET st == DirectiveTime(stem, StartPrefix)
        en == DirectiveTime(stem, EndPrefix)
    IN  [ok |-> st.ok /\ en.ok,
         should_process |-> Contains(stem, SlowTag),
         start |-> st.t,
         end |-> en.t,
         clean_stem |-> CleanStem(stem)]

\* ------------------------------------------------------------------------
\* The folder loop of main() (speedup.py 345-386), by the names of the files
\* ------------------------------------------------------------------------

Mp4Suffix == <<".", "m", "p", "4">>

\* What the stems of the folder's files are made of: words, separators and
\* directives.
StemPieces ==
    {<<"a">>, <<"a", "_", "a">>, <<"a", "_", "-", "a">>, <<"a", "-", "a">>,
     <<"a", "-", "-", "a">>, <<"_">>, <<" ">>, SlowTag,
     StartPrefix \o <<"1", "0">>, EndPrefix \o <<"1", "_", "0", "5">>}

RECURSIVE StemsUpTo(_)
StemsUpTo(n) ==
    IF n = 0 THEN {<<>>}
    ELSE LET S == StemsUpTo(n - 1) IN S \cup {s \o p : s \in S, p \in StemPieces}

Stems == StemsUpTo(MaxStemPieces) \ {<<>>}

\* The sub-folders of the input folder, relative to it: itself and "sub".
Parents == {<<>>, <<(<<"s", "u", "b">>)>>}

\* A file in_dir / parent / (stem + ".mp4").
Files == [parent : Parents, stem : Stems]

PathParts(f) == f.parent \o <<f.stem \o Mp4Suffix>>

\* The order of Path objects: that of their lists of parts.
RECURSIVE PartsLess(_, _)
PartsLess(p, q) ==
    IF Len(q) = 0 THEN FALSE
    ELSE IF Len(p) = 0 THEN TRUE
    ELSE IF p[1] = q[1] THEN PartsLess(Tail(p), Tail(q))
    ELSE StrLess(p[1], q[1])

\* The values of sorted(in_dir.rglob("*.mp4")).
FileLists ==
    {l \in UNION {[1..n -> Files] : n \in 0..MaxFolderFiles} :
        \A i \in 1..(Len(l) - 1) : PartsLess(PathParts(l[i]), PathParts(l[i + 1]))}

\* out_path relative to out_dir: target_dir / f"{d.clean_stem}.mp4" (365-370)
OutPath(f) == f.parent \o <<CleanStem(f.stem) \o Mp4Suffix>>

InitFolder ==
    /\ TempoOff
    /\ CliOff
    /\ GuiOff
    /\ RelayOff
    /\ fd_pc = "start"
    /\ mp4s \in FileLists
    /\ fd_next = 1
    /\ written = <<>>

\* main 350-353
FolderList ==
    /\ fd_pc = "start"
    /\ fd_pc' = IF Len(mp4s) = 0 THEN "died" ELSE "loop"
    /\ UNCHANGED <<mp4s, fd_next, written, tempoVars, cliVars, guiVars, relayVars>>

\* The file the loop is at and its directives (358-359).
Mp4 == mp4s[fd_next]

D == ParseFilenameDirectives(Mp4.stem)

\* main 361-363
VisitSkip ==
    /\ fd_pc = "loop"
    /\ fd_next <= Len(mp4s)
    /\ D.ok
    /\ ~D.should_process
    /\ fd_next' = fd_next + 1
    /\ UNCHANGED <<fd_pc, mp4s, written, tempoVars, cliVars, guiVars, relayVars>>

\* build_ffmpeg_cmd's check (225-229) on the directives of the name, when both
\* are in it.
NameRejected(d) ==
    d.start.some /\ d.end.some /\ Rejected(StartOrZero(d.start), d.end.v)

\* main 365-383: process_one returns; the transcoder (run with -y) has written
\* out_path, over whatever was there.
VisitRender ==
    /\ fd_pc = "loop"
    /\ fd_next <= Len(mp4s)
    /\ D.ok
    /\ D.should_process
    /\ ~NameRejected(D)
    /\ written' = Append(written, [input |-> Mp4, out_path |-> OutPath(Mp4)])
    /\ fd_next' = fd_next + 1
    /\ UNCHANGED <<fd_pc, mp4s, tempoVars, cliVars, guiVars, relayVars>>

\* die() during the visit: in parse_hms (36, 38), or in process_one (the probe,
\* the check of the segment, the transcoder's return code).
VisitDie ==
    /\ fd_pc = "loop"
    /\ fd_next <= Len(mp4s)
    /\ ~D.ok \/ D.should_process
    /\ fd_pc' = "died"
    /\ UNCHANGED <<mp4s, fd_next, written, tempoVars, cliVars, guiVars, relayVars>>

\* main 385-386
FolderDone ==
    /\ fd_pc = "loop"
    /\ fd_next > Len(mp4s)
    /\ fd_pc' = "done"
    /\ UNCHANGED <<mp4s, fd_next, written, tempoVars, cliVars, guiVars, relayVars>>

NextFolder == FolderList \/ VisitSkip \/ VisitRender \/ VisitDie \/ FolderDone

SpecFolder == InitFolder /\ [][NextFolder]_vars

\* ------------------------------------------------------------------------
\* Reading a chain back, as the transcoder's atempo filter does
\* ------------------------------------------------------------------------

\* Position of the "." of a decimal string, 0 when it has none.
DotPos(s) ==
    IF \E i \in 1..Len(s) : s[i] = "." THEN CHOOSE i \in 1..Len(s) : s[i] = "." ELSE 0

\* The value of the decimal string s, in millionths.
DecMicro(s) ==
    LET p == DotPos(s)
        ip == IF p = 0 THEN s ELSE SubSeq(s, 1, p - 1)
        fp == IF p = 0 THEN <<>> ELSE SubSeq(s, p + 1, Len(s))
    IN  DigitsVal(ip) * Micro + DigitsVal(fp) * (10 ^ (FmtDecimals - Len(fp)))

\* The factor of one "atempo=<number>" filter, in millionths.
FactorMicro(f) == DecMicro(Tail(f))

CountOf(fs, f) == Cardinality({i \in 1..Len(fs) : fs[i] = f})

\* The returned chain: every factor in [0.5, 2.0], the constant factors all 2.0
\* or all 0.5, and the product within the rounding of the last factor of the speed.
C1_ChainOk ==
    (at_pc = "done" /\ at_speed.num > 0) =>
        LET n == Len(at_filters)
            a == CountOf(SubSeq(at_filters, 1, n - 1), FilterTwo)
            b == CountOf(SubSeq(at_filters, 1, n - 1), FilterHalf)
            last == FactorMicro(at_filters[n])
        IN  /\ n >= 1
            /\ \A i \in 1..n :
                  /\ FactorMicro(at_filters[i]) >= Micro \div 2
                  /\ FactorMicro(at_filters[i]) <= 2 * Micro
            /\ \/ a = n - 1 /\ b = 0
               \/ b = n - 1 /\ a = 0
            \* |2^a / 2^b * last / 10^6 - num/den| <= 2^a / 2^b / (2 * 10^6)
            /\ Abs(Pow2(a) * last * at_speed.den - Pow2(b) * at_speed.num * Micro)
                   <= (Pow2(a) * at_speed.den) \div 2

\* C1: for every speed s in (0, MaxSpeed], the chain atempo_chain(s) returns has
\* every factor in [0.5, 2.0], and the product of the factors is s to within the
\* rounding of the last factor to six decimals (half a millionth, scaled by the
\* product of the other factors); and the loops that build the chain terminate.
C1_TempoChain == [](C1_ChainOk) /\ <>(at_pc \in {"done", "died"})

\* A speed above 2 that is not a multiple of a millionth: one halving, then a
\* residual factor that the formatting has to round.
C1_Witness ==
    /\ at_pc = "done"
    /\ RatLT(Two, at_speed)
    /\ Len(at_filters) = 2
    /\ (at_remaining.num * Micro) % at_remaining.den # 0

\* ------------------------------------------------------------------------
\* The request in build_ffmpeg_cmd, as the claims read it
\* ------------------------------------------------------------------------

Min(a, b) == IF a < b THEN a ELSE b

Max(a, b) == IF a > b THEN a ELSE b

\* A missing start counts as 0, a missing end as the source's end.
EffStart == IF cur.start.some THEN cur.start.v ELSE 0

EffEnd == IF cur.end.some THEN cur.end.v ELSE in_dur

StartOrEndGiven == cur.start.some \/ cur.end.some

\* The length of the part of a source of dur seconds that lies between a and b.
SourceLen(a, b, dur) == Max(0, Min(b, dur) - Min(Max(a, 0), dur))

\* build_ffmpeg_cmd returned a command for cur.
BuildAccepted == pc \in {"run_ffmpeg", "relay"}

RatEq(x, y) == x.num * y.den = y.num * x.den

\* C2: the expected duration build_ffmpeg_cmd returns is, in partial mode, the
\* length of the source before the start, plus the length of the source between
\* start and end divided by the speed, plus the length of the source after the
\* end; in whole-file mode the probed duration divided by the speed.
C2_ExpectedDuration ==
    BuildAccepted =>
        IF StartOrEndGiven
        THEN RatEq(built.expected,
                   Rat(SourceLen(0, EffStart, in_dur) * argv.speed.num
                       + SourceLen(EffStart, EffEnd, in_dur) * argv.speed.den
                       + SourceLen(EffEnd, in_dur, in_dur) * argv.speed.num,
                       argv.speed.num))
        ELSE RatEq(built.expected, Rat(in_dur * argv.speed.den, argv.speed.num))

\* C3: in partial mode, a request whose effective end is at or before its
\* effective start is rejected: build_ffmpeg_cmd ends the run in the error exit
\* without returning a command and without a transcoder launched for the file;
\* so a command is only ever built, and a transcoder only ever run, for a
\* request whose effective end is after its effective start.
C3_EndNotAfterStartRejected ==
    /\ [](BuildAccepted /\ StartOrEndGiven => EffEnd > EffStart)
    /\ [][(pc = "build" /\ StartOrEndGiven /\ EffEnd <= EffStart) =>
            /\ pc' = "exited"
            /\ exitCode' = 1
            /\ built'.rejected
            /\ launched' = launched
            /\ running' = {}]_vars

\* A rejected request whose end is missing: the start is at or past the source's end.
C3_Witness ==
    /\ pc = "exited"
    /\ exitCode = 1
    /\ stderrOut = <<"--end must be greater than --start">>
    /\ cur.start.some /\ ~cur.end.some
    /\ built.rejected
    /\ running = {}

\* The length of the output a video segment of the filter graph yields from a
\* source of dur seconds: what its trim keeps, divided by its setpts divisor.
SegmentOut(seg, dur) ==
    Rat(SourceLen(seg.from, IF seg.to.some THEN seg.to.v ELSE dur, dur)
            * seg.setpts_div.den,
        seg.setpts_div.num)

\* The length of an audio segment: what its atrim keeps of the source, or the
\* duration the silence generator is cut to.
AudioOut(seg, dur) ==
    IF seg.kind = "anullsrc" THEN seg.duration
    ELSE Rat(SourceLen(seg.from, IF seg.to.some THEN seg.to.v ELSE dur, dur), 1)

RatAdd(x, y) == Rat(x.num * y.den + y.num * x.den, x.den * y.den)

\* C4: in partial mode with audio kept, the silence between the head audio and
\* the tail audio is as long as the sped-up middle video segment, so that the
\* concatenated audio is as long as the concatenated video.
C4_SilenceMatchesMiddle ==
    (BuildAccepted /\ StartOrEndGiven /\ ~argv.no_audio) =>
        LET v == built.cmd.video
            a == built.cmd.audio
        IN  /\ RatEq(AudioOut(a[2], in_dur), SegmentOut(v[2], in_dur))
            /\ RatEq(RatAdd(RatAdd(AudioOut(a[1], in_dur), AudioOut(a[2], in_dur)),
                            AudioOut(a[3], in_dur)),
                     RatAdd(RatAdd(SegmentOut(v[1], in_dur), SegmentOut(v[2], in_dur)),
                            SegmentOut(v[3], in_dur)))

\* The failures of a run, read off what the run was given and what its
\* external processes returned.
InvalidTimeString ==
    \/ argv.start.some /\ argv.start.v \in BadTimeStrs
    \/ argv.end.some /\ argv.end.v \in BadTimeStrs

EnteredProcessOne == dirs \cap {"target_dir", "output_parent"} # {}

ListedFailure ==
    \/ InvalidTimeString
    \/ argv.speed.num <= 0
    \/ ~env.ffmpeg
    \/ ~env.ffprobe /\ EnteredProcessOne
    \/ probed = "unreadable"
    \/ probed = "ok" /\ StartOrEndGiven /\ EffEnd <= EffStart
    \/ rc > 0

Failed == stderrOut # <<>> \/ rc > 0 \/ probed = "unreadable"

\* C6: no failure is retried: once a step of a run has failed, no external
\* process is launched again in that run, no further file of the folder is
\* visited or rendered, and "Folder complete" is not printed.
C6_NoRetry ==
    [][Failed =>
          /\ launched' = launched
          /\ running' = running
          /\ processed' = processed
          /\ skipped' = skipped
          /\ filesLeft' = filesLeft
          /\ ~summary /\ ~summary'
          /\ pc' = "exited"]_vars

\* The transcoder fails on a file of a folder that has files left.
C6_Witness ==
    /\ pc = "exited"
    /\ rc > 0
    /\ env.input = "dir"
    /\ filesLeft > 0
    /\ ~summary

\* C7: a run in which the prober or the transcoder is not on the search path
\* ends in the error exit, before any file is rendered and before any output
\* directory is created.
C7_FailFast ==
    (~env.ffprobe \/ ~env.ffmpeg) =>
        /\ dirs = {}
        /\ \A i \in 1..Len(launched) : launched[i] # "ffmpeg"
        /\ pc = "exited" => exitCode = 1

\* C9: build_ffmpeg_cmd builds the whole-file command (one video filter that
\* divides the timestamps by the speed at the fast frame rate, the tempo chain
\* on the audio when audio is kept) exactly when neither start nor end is
\* given, and the three-segment split/concat graph whenever start or end is
\* given, a start of 0 included; in both modes -an is passed, with no audio
\* filter and no audio map, exactly when no_audio is set.
C9_ModeSelection ==
    BuildAccepted =>
        LET c == built.cmd
        IN  /\ ~StartOrEndGiven =>
                  /\ c.video_opt = "-filter:v"
                  /\ Len(c.video) = 1
                  /\ c.video[1].setpts_div = argv.speed
                  /\ c.video[1].fps = <<"fps_fast">>
                  /\ c.video[1].from = 0 /\ ~c.video[1].to.some
                  /\ ~argv.no_audio => c.audio_opt = "-filter:a" /\ Len(c.atempo) >= 1
            /\ StartOrEndGiven =>
                  /\ c.video_opt = "-filter_complex"
                  /\ Len(c.video) = 3
                  /\ c.video[2].setpts_div = argv.speed
                  /\ c.maps[1] = "[v]"
                  /\ ~argv.no_audio =>
                        /\ c.audio_opt = "-filter_complex"
                        /\ Len(c.audio) = 3
                        /\ c.maps = <<"[v]", "[a]">>
            /\ c.an <=> argv.no_audio
            /\ argv.no_audio =>
                  /\ c.audio_opt = ""
                  /\ c.audio = <<>>
                  /\ c.atempo = <<>>
                  /\ \A i \in 1..Len(c.maps) : c.maps[i] # "[a]"

\* A start of 0 with no end: partial mode, audio kept.
C9_Witness ==
    /\ BuildAccepted
    /\ cur.start = Some(0)
    /\ ~cur.end.some
    /\ ~argv.no_audio
    /\ built.cmd.video_opt = "-filter_complex"
    /\ built.cmd.maps = <<"[v]", "[a]">>

\* The external processes (probers and transcoders) alive below the window.
AliveExt == {i \in Runs : ext[i] # "none"}

AliveWorkers == {i \in Runs : wpc[i] \notin {"none", "finished"}}

\* C8: at most one external process is running at any time and transcodes
\* never run in parallel: over any sequence of Run and Stop clicks interleaved
\* with the worker's steps there is never more than one worker, never more
\* than one prober or transcoder alive, and a press of Run during a run starts
\* nothing.
C8_OneProcessAtATime ==
    /\ Cardinality(AliveWorkers) <= 1
    /\ Cardinality(AliveExt) <= 1
    /\ status = "Running" => run_btn = "disabled"

\* C10: the relay never hangs: there is no reachable state in which the relay
\* waits (for a line of stdout, or for the exit) while the transcoder is
\* blocked writing to a pipe that nobody reads.
C10_RelayNeverHangs ==
    /\ ~(/\ rl_pc = "reading"
         /\ outPipe = <<>>
         /\ ff_op = "write_err"
         /\ errPipe = PipeCap)
    /\ ~(/\ rl_pc = "waiting"
         /\ \/ ff_op = "write_err" /\ errPipe = PipeCap
            \/ ff_op = "write_out" /\ Len(outPipe) = PipeCap)

\* The runs whose child speedup.py is alive.
AliveChildren == {i \in Runs : cli[i] \in {"started", "probing", "probed", "relay"}}

\* C11: a press of Stop during a run (status "Running", Stop enabled) sends
\* terminate to the running child: in no interleaving of the window's thread
\* and the worker is a Stop pressed during a run ignored while the child of
\* that run keeps running.
C11_StopReachesChild ==
    \A i \in Runs : stop_pressed[i] /\ ~term_sent[i] => i \notin AliveChildren

\* The last part of C11: after every run (normal exit, launch error or Stop)
\* the window returns to Idle with Run enabled, Stop disabled and no child
\* recorded.
C11_ReturnsToIdle ==
    (status = "Running") ~>
        (status = "Idle" /\ run_btn = "normal" /\ stop_btn = "disabled" /\ proc = 0)

\* C12: in one folder-mode run no rendered output overwrites another: any two
\* distinct input files that are both processed are written to distinct
\* output paths.
C12_NoOutputOverwritten ==
    \A i, j \in 1..Len(written) :
        written[i].input # written[j].input =>
            written[i].out_path # written[j].out_path

====
